---- MODULE Spec2Model ----
(***************************************************************************)
(* The remote-execution task engine of testum: the Celery task runner      *)
(* (app/tasks.py), the Paramiko SSH helper (app/ssh_helper.py) and the     *)
(* HTTP handlers that enqueue and cancel tasks (app/api/platforms.py).     *)
(*                                                                         *)
(* Spec       the task runner and its callers; every SSHHelper call is one *)
(*            step of the runner.                                          *)
(* FairSpec   Spec with weak fairness on the worker's steps.               *)
(* HelperSpec concurrent deploy_authorized_keys calls of connected         *)
(*            sessions on one remote account, every SFTP request a step.   *)
(* SerialSpec the same calls, one deployment at a time.                    *)
(* SessionSpec a caller driving one SSHHelper call by call, from connect().*)
(* CredSpec   the runner of one task over every credential a platform row *)
(*            can hold, with SSH keys deleted meanwhile.                    *)
(* ApiSpec    one task from its enqueueing request on, with revocation.     *)
(* BridgeSpec the WebSocket bridge (app/ws.py) relaying a task's events.    *)
(* JobSpec    automation jobs created and updated (app/api/automations.py). *)
(* CryptoSpec a caller of CryptoHelper (app/crypto.py) encrypting and       *)
(*            decrypting one plaintext.                                     *)
(***************************************************************************)
EXTENDS Integers, Sequences, FiniteSets, TLC

\* ------------------------------------------------------------------ bounds
NTasks == 2          \* task invocations / SSHHelper sessions
MaxOutLines == 1     \* non-empty lines in a command's stdout or stderr
MaxClock == 1        \* seconds int(time.time()) may advance
MaxCalls == 1        \* deploy_authorized_keys calls of one session
NSessions == 1       \* callers driving an SSHHelper call by call (SessionSpec)

Tasks == 1..NTasks
Sessions == 1..NSessions
NObservers == 2      \* WebSocket connections to the stream bridge
Observers == 1..NObservers
MaxEvents == 2       \* events published on one task's channel (BridgeSpec)
NJobs == 2           \* automation jobs
Jobs == 1..NJobs
MaxPlainLen == 2     \* bytes or characters of a plaintext (CryptoSpec)
MaxTokens == 2       \* encryptions of one plaintext (CryptoSpec)

\* ------------------------------------------------------- program constants
ArchiveThreshold == 10000
InlineLimit == 5000

\* --------------------------------------------------------------- universes
KeyIds == {"k1", "k2"}
\* SSHKey.public_key of each stored key; k2's text carries trailing whitespace
PublicKey(k) == IF k = "k1" THEN "A" ELSE "B "
\* stored keys that also hold an encrypted private key
PrivKeyIds == {"k1"}

NoFp == "none"
Fingerprints == {"fpA", "fpB"}

\* lines a remote authorized_keys can hold: keys, a key with leading
\* whitespace, a blank line and a comment
Lines == {"A", "B", "X", " A", "B ", "", "# managed"}

\* str.strip()
Strip(l) == CASE l = " A" -> "A" [] l = "B " -> "B" [] OTHER -> l
\* str.startswith("#")
IsComment(l) == l = "# managed"
\* the order sorted() gives the stripped key lines
LineOrder == <<"A", "B", "X">>

AkPath == <<"authorized_keys", 0>>
TmpPath(c) == <<"authorized_keys.tmp", c>>
Paths == {AkPath} \cup {TmpPath(c) : c \in 0..MaxClock}
NoFile == [exists |-> FALSE, ino |-> 0, data |-> <<>>, mode |-> "-"]

VARIABLES
    taskRun,    \* task_runs rows, by TaskRun id
    platform,   \* the platforms row the tasks target
    sshKeys,    \* ids of the ssh_keys rows
    revoked,    \* HTTP status of the last revoke request for each task
    pc,         \* position of each runner invocation
    loc,        \* its arguments and local variables
    stream,     \* events published on each task's Redis channel, in order
    blobs,      \* tasks whose output object was stored in the bucket
    ssh,        \* the SSHHelper each invocation (or caller) owns
    fs,         \* remote files of the account, by path
    dirExists,  \* whether the remote ~/.ssh directory exists
    clock,      \* int(time.time())
    nextIno,    \* next remote inode number
    hpc,        \* position inside deploy_authorized_keys (HelperSpec)
    hloc,       \* its local variables
    observers,  \* WebSocket connections of the stream bridge
    jobs,       \* automation_jobs rows with their platform links
    box         \* a CryptoHelper caller's plaintext, token and result

vars == <<taskRun, platform, sshKeys, revoked, pc, loc, stream, blobs,
          ssh, fs, dirExists, clock, nextIno, hpc, hloc, observers, jobs, box>>
sideVars == <<observers, jobs, box>>
dbVars == <<taskRun, platform, sshKeys, revoked>>
remoteVars == <<fs, dirExists, clock, nextIno>>
helperVars == <<hpc, hloc>>

\* ------------------------------------------------- authorized_keys algebra
\* existing_lines: the stripped, non-blank, non-comment lines of the content
ExistingLines(data) ==
    {Strip(data[i]) : i \in {j \in DOMAIN data :
        Strip(data[j]) # "" /\ ~IsComment(Strip(data[j]))}}

\* new_keys: the stripped, non-blank public keys
NewKeys(public_keys) == {Strip(k) : k \in {x \in public_keys : Strip(x) # ""}}

MergeKeys(existing_lines, new_keys) == existing_lines \cup new_keys

\* "\n".join(sorted(merged_keys)) + "\n", as the sequence of its lines
NewContent(merged_keys) ==
    IF merged_keys = {} THEN <<"">>
    ELSE SelectSeq(LineOrder, LAMBDA l : l \in merged_keys)

AddedCount(merged_keys, existing_lines) ==
    Cardinality(merged_keys) - Cardinality(existing_lines)

\* ------------------------------------------------------------- SSHHelper
NoSession == [client |-> "None", known |-> NoFp, hostkey |-> NoFp]

\* SSHHelper(..., known_host_fingerprint=known)
NewHelper(known) == [NoSession EXCEPT !.known = known]

\* Connect without the self.close() of the mismatch branch
Connect_NoClose(s) ==
    {[ssh |-> [s EXCEPT !.client = "dead", !.hostkey = NoFp], ok |-> FALSE,
      error |-> "Connection error", expected |-> NoFp, got |-> NoFp, presented |-> NoFp]}
    \cup
    {[ssh |-> [s EXCEPT !.client = "dead", !.hostkey = fp], ok |-> FALSE,
      error |-> "Authentication failed", expected |-> NoFp, got |-> NoFp, presented |-> fp]
        : fp \in Fingerprints}
    \cup
    {IF s.known # NoFp /\ fp # s.known
        THEN [ssh |-> [s EXCEPT !.client = "live", !.hostkey = fp], ok |-> FALSE,
              error |-> "Host key verification failed",
              expected |-> s.known, got |-> fp, presented |-> fp]
        ELSE [ssh |-> [s EXCEPT !.client = "live", !.hostkey = fp], ok |-> TRUE,
              error |-> "", expected |-> NoFp, got |-> NoFp, presented |-> fp]
        : fp \in Fingerprints}

\* the results connect() can return for session s: the session it leaves, the
\* (success, error_message) pair, and the host key of the peer the credential
\* was presented to (client.connect authenticates; the pin is compared after)
Connect(s) ==
    {[ssh |-> [s EXCEPT !.client = "dead", !.hostkey = NoFp], ok |-> FALSE,
      error |-> "Connection error", expected |-> NoFp, got |-> NoFp, presented |-> NoFp]}
    \cup
    {[ssh |-> [s EXCEPT !.client = "dead", !.hostkey = fp], ok |-> FALSE,
      error |-> "Authentication failed", expected |-> NoFp, got |-> NoFp, presented |-> fp]
        : fp \in Fingerprints}
    \cup
    {IF s.known # NoFp /\ fp # s.known
        THEN [ssh |-> [s EXCEPT !.client = "None", !.hostkey = NoFp], ok |-> FALSE,
              error |-> "Host key verification failed",
              expected |-> s.known, got |-> fp, presented |-> fp]
        ELSE [ssh |-> [s EXCEPT !.client = "live", !.hostkey = fp], ok |-> TRUE,
              error |-> "", expected |-> NoFp, got |-> NoFp, presented |-> fp]
        : fp \in Fingerprints}

\* get_host_fingerprint(): None without a client or a transport
GetHostFingerprint(s) == IF s.client = "None" THEN NoFp ELSE s.hostkey

\* close()
Close(s) == IF s.client # "None" THEN [s EXCEPT !.client = "None", !.hostkey = NoFp] ELSE s

\* read_file(path): the content, or None (here <<>> with found FALSE) when the
\* file is missing or the transfer fails; okRead is whether the transfer works
ReadFile(s, files, path, okRead) ==
    IF s.client = "live" /\ okRead /\ files[path].exists
        THEN [found |-> TRUE, data |-> files[path].data]
        ELSE [found |-> FALSE, data |-> <<>>]

\* whether a call on session s is handed to the Paramiko client at all
HandedToClient(s) == s.client # "None"

\* ensure_directory(path) run without interruption: it can fail (False), and
\* with a live client it can find or create the directory
EnsureDirectory(s, dir) ==
    {[ok |-> FALSE, dir |-> dir]}
    \cup (IF s.client = "live" THEN {[ok |-> TRUE, dir |-> TRUE]} ELSE {})

\* write_file_atomic(path, content) run without interruption: nothing, or
\* the target replaced by the renamed temporary file
WriteFileAtomic(s, files, path, content) ==
    {[ok |-> FALSE, fs |-> files]}
    \cup (IF s.client = "live"
            THEN {[ok |-> TRUE,
                   fs |-> [files EXCEPT ![path] = [exists |-> TRUE, ino |-> 1,
                                                   data |-> content, mode |-> "0600"]]]}
            ELSE {})

\* deploy_authorized_keys(public_keys) run without interruption: the results
\* it can return and the remote state each leaves
DeployAuthorizedKeys(s, files, dir, public_keys) ==
    UNION {
      IF ~d.ok
        THEN {[ok |-> FALSE, message |-> "Failed to create .ssh directory",
               added |-> 0, fs |-> files, dir |-> d.dir]}
        ELSE UNION {
          LET existing_lines == ExistingLines(ReadFile(s, files, AkPath, okRead).data)
              merged_keys == MergeKeys(existing_lines, NewKeys(public_keys))
          IN {IF w.ok
                THEN [ok |-> TRUE, message |-> "Successfully deployed keys",
                      added |-> AddedCount(merged_keys, existing_lines),
                      fs |-> w.fs, dir |-> d.dir]
                ELSE [ok |-> FALSE, message |-> "Failed to write authorized_keys file",
                      added |-> 0, fs |-> w.fs, dir |-> d.dir]
              : w \in WriteFileAtomic(s, files, AkPath, NewContent(merged_keys))}
          : okRead \in BOOLEAN}
      : d \in EnsureDirectory(s, dir)}

\* ------------------------------------------------------------ initial state
NoText == [len |-> 0, truncated |-> FALSE]
NoRow == [status |-> "none", started_at |-> FALSE, finished_at |-> 0,
          error_message |-> "", result_location |-> FALSE,
          stdout |-> NoText, stderr |-> NoText, exit_code |-> -1,
          celery_task_id |-> FALSE, type |-> "none"]

NoLocals == [type |-> "none", key_ids |-> {}, known |-> NoFp,
             password |-> "none", private_key |-> "none", keys |-> {},
             err |-> "", added |-> 0, exit_code |-> 0,
             stdout |-> 0, stderr |-> 0, out_lines |-> 0, err_lines |-> 0]

\* credentials a platform row can hold
PasswordCred == [auth_method |-> "password", encrypted_password |-> TRUE,
                 ssh_key_id |-> "none", encrypted_private_key |-> FALSE]

InitRemote ==
    /\ fs = [p \in Paths |-> NoFile]
    /\ dirExists = FALSE
    /\ clock = 0
    /\ nextIno = 1

\* a caller's view of its SSHHelper: the arguments and locals of the
\* deploy_authorized_keys call in progress, what its last calls returned, and
\* the authorized_keys content at the call's start and return
NoCall == [public_keys |-> {}, existing_lines |-> {}, read_ok |-> FALSE,
           new_content |-> <<>>, temp_path |-> AkPath, handle |-> 0,
           calls |-> 0, result |-> "none", added |-> 0,
           start |-> <<>>, after |-> <<>>,
           connect_error |-> "", expected |-> NoFp, got |-> NoFp, presented |-> NoFp,
           last_op |-> "none", handed |-> FALSE]

\* a WebSocket nobody opened, a job nobody created, a helper nobody called
NoObserver == [state |-> "none", topic |-> 0, since |-> 0, buffer |-> <<>>, frames |-> <<>>]
NoJob == [exists |-> FALSE, run_on_all_platforms |-> FALSE, platform_links |-> {},
          status_code |-> 0]
NoToken == [version |-> 0, iv |-> 0, body |-> <<>>, hmac |-> <<0, 0, <<>>>>]
NoBox == [kind |-> "none", plain |-> <<>>, tokens |-> <<>>,
          op |-> "none", arg |-> NoToken, result |-> "none", out |-> <<>>]

InitSide ==
    /\ observers = [o \in Observers |-> NoObserver]
    /\ jobs = [j \in Jobs |-> NoJob]
    /\ box = NoBox

InitHelpers ==
    /\ hpc = [t \in Tasks |-> "idle"]
    /\ hloc = [t \in Tasks |-> NoCall]

Init ==
    /\ taskRun = [t \in Tasks |-> NoRow]
    /\ \E fp \in {NoFp, "fpA"} :
         platform = [exists |-> TRUE, cred |-> PasswordCred, known_host_fingerprint |-> fp]
    /\ sshKeys \in {KeyIds, {}}
    /\ revoked = [t \in Tasks |-> 0]
    /\ pc = [t \in Tasks |-> "none"]
    /\ loc = [t \in Tasks |-> NoLocals]
    /\ stream = [t \in Tasks |-> <<>>]
    /\ blobs = {}
    /\ ssh = [t \in Tasks |-> NoSession]
    /\ InitRemote
    /\ InitHelpers
    /\ InitSide

\* ------------------------------------------------------- HTTP handlers
\* POST /platforms/{id}/deploy_keys up to deploy_keys_task.delay(): validates,
\* inserts the PENDING row, enqueues
deploy_keys(t, key_ids) ==
    /\ taskRun[t].status = "none"
    /\ platform.exists
    /\ key_ids \subseteq sshKeys
    /\ taskRun' = [taskRun EXCEPT ![t] = [NoRow EXCEPT !.status = "pending", !.type = "deploy"]]
    /\ pc' = [pc EXCEPT ![t] = "queued"]
    /\ loc' = [loc EXCEPT ![t] = [NoLocals EXCEPT !.type = "deploy", !.key_ids = key_ids]]
    /\ UNCHANGED <<platform, sshKeys, revoked, stream, blobs, ssh, remoteVars, helperVars, sideVars>>

\* POST /platforms/{id}/run_command up to run_command_task.delay()
run_command(t) ==
    /\ taskRun[t].status = "none"
    /\ platform.exists
    /\ taskRun' = [taskRun EXCEPT ![t] = [NoRow EXCEPT !.status = "pending", !.type = "run_command"]]
    /\ pc' = [pc EXCEPT ![t] = "queued"]
    /\ loc' = [loc EXCEPT ![t] = [NoLocals EXCEPT !.type = "run_command"]]
    /\ UNCHANGED <<platform, sshKeys, revoked, stream, blobs, ssh, remoteVars, helperVars, sideVars>>

\* the rest of either handler: task_run.celery_task_id = celery_task.id; commit
set_celery_task_id(t) ==
    /\ taskRun[t].status # "none"
    /\ ~taskRun[t].celery_task_id
    /\ taskRun' = [taskRun EXCEPT ![t].celery_task_id = TRUE]
    /\ UNCHANGED <<platform, sshKeys, revoked, pc, loc, stream, blobs, ssh, remoteVars, helperVars, sideVars>>

\* POST /tasks/{task_id}/revoke: 404 without a row of that celery_task_id;
\* with one, TaskStatusEnum.pending raises AttributeError (the members are
\* PENDING, RUNNING, ...) and the handler answers 500 before any write
revoke_task(t) ==
    /\ revoked[t] = 0
    /\ revoked' = [revoked EXCEPT ![t] = IF taskRun[t].celery_task_id THEN 500 ELSE 404]
    /\ UNCHANGED <<taskRun, platform, sshKeys, pc, loc, stream, blobs, ssh, remoteVars, helperVars, sideVars>>

\* DELETE /platforms/{id}: the row goes, its task_runs keep a NULL platform_id
delete_platform ==
    /\ platform.exists
    /\ platform' = [platform EXCEPT !.exists = FALSE]
    /\ UNCHANGED <<taskRun, sshKeys, revoked, pc, loc, stream, blobs, ssh, remoteVars, helperVars, sideVars>>

\* DELETE /keys/{id}: refused by the foreign key while a platform refers to it
delete_key(k) ==
    /\ k \in sshKeys
    /\ ~(platform.exists /\ platform.cred.ssh_key_id = k)
    /\ sshKeys' = sshKeys \ {k}
    /\ UNCHANGED <<taskRun, platform, revoked, pc, loc, stream, blobs, ssh, remoteVars, helperVars, sideVars>>

\* ----------------------------------------------------------- task runner
\* the locals the except clause still reads: the exception's text
Unwound(l, msg) == [NoLocals EXCEPT !.type = l.type, !.err = msg]

\* publish_task_message for each kind in turn, then continue at `next` with
\* locals nl; a publish that raises (Redis unreachable) enters the except
\* clause with the events before it published
Proceed(t, nl, kinds, next) ==
    \E j \in 0..Len(kinds) :
        /\ stream' = [stream EXCEPT ![t] = @ \o SubSeq(kinds, 1, j)]
        /\ IF j = Len(kinds)
              THEN /\ pc' = [pc EXCEPT ![t] = next]
                   /\ loc' = [loc EXCEPT ![t] = nl]
              ELSE /\ pc' = [pc EXCEPT ![t] = "except"]
                   /\ loc' = [loc EXCEPT ![t] = Unwound(nl, "publish failed")]

\* raise: control passes to `except Exception as e` with str(e) = msg
Raise(t, nl, msg) ==
    /\ pc' = [pc EXCEPT ![t] = "except"]
    /\ loc' = [loc EXCEPT ![t] = Unwound(nl, msg)]
    /\ UNCHANGED stream

\* task_run.status = RUNNING; started_at; commit (the row exists: the handler
\* inserted it before enqueueing and no operation deletes task_runs)
MarkRunning(t) ==
    /\ pc[t] = "queued"
    /\ taskRun' = [taskRun EXCEPT ![t].status = "running", ![t].started_at = TRUE]
    /\ pc' = [pc EXCEPT ![t] = "started"]
    /\ UNCHANGED <<platform, sshKeys, revoked, loc, stream, blobs, ssh, remoteVars, helperVars, sideVars>>

\* "Decrypt credentials": password and private_key as the runner resolves them
ResolvePassword(cred) ==
    IF cred.auth_method = "password" /\ cred.encrypted_password THEN "platform" ELSE "none"

ResolvePrivateKey(cred, keys) ==
    IF cred.auth_method = "password" /\ cred.encrypted_password THEN "none"
    ELSE IF cred.auth_method # "private_key" THEN "none"
    ELSE IF cred.ssh_key_id # "none"
        THEN IF cred.ssh_key_id \in keys /\ cred.ssh_key_id \in PrivKeyIds
                THEN "ssh_key" ELSE "none"
    ELSE IF cred.encrypted_private_key THEN "inline" ELSE "none"

\* deploy_keys_task, line 126
DkPublishStart(t) ==
    /\ pc[t] = "started" /\ loc[t].type = "deploy"
    /\ Proceed(t, loc[t], <<"progress">>, "lookup")
    /\ UNCHANGED <<dbVars, blobs, ssh, remoteVars, helperVars, sideVars>>

\* lines 128-133: the platform row, read once into the session
DkGetPlatform(t) ==
    /\ pc[t] = "lookup" /\ loc[t].type = "deploy"
    /\ IF platform.exists
          THEN Proceed(t, [loc[t] EXCEPT !.known = platform.known_host_fingerprint],
                       <<"progress">>, "resolve")
          ELSE Raise(t, loc[t], "Platform not found")
    /\ UNCHANGED <<dbVars, blobs, ssh, remoteVars, helperVars, sideVars>>

\* lines 135-169: credentials, keys to deploy, the SSHHelper
DkResolve(t) ==
    /\ pc[t] = "resolve" /\ loc[t].type = "deploy"
    /\ LET keys == IF loc[t].key_ids # {} THEN loc[t].key_ids \cap sshKeys ELSE sshKeys
           nl == [loc[t] EXCEPT !.password = ResolvePassword(platform.cred),
                                !.private_key = ResolvePrivateKey(platform.cred, sshKeys),
                                !.keys = keys]
       IN \/ /\ nl.password # "none" \/ nl.private_key # "none"
             /\ Raise(t, loc[t], "decrypt failed")
             /\ UNCHANGED ssh
          \/ IF keys = {}
                THEN Raise(t, nl, "No keys found to deploy") /\ UNCHANGED ssh
                ELSE /\ Proceed(t, nl, <<"progress">>, "connect")
                     /\ ssh' = [ssh EXCEPT ![t] = NewHelper(loc[t].known)]
    /\ UNCHANGED <<dbVars, blobs, remoteVars, helperVars, sideVars>>

\* lines 171-173
DkConnect(t) ==
    /\ pc[t] = "connect" /\ loc[t].type = "deploy"
    /\ \E r \in Connect(ssh[t]) :
         /\ ssh' = [ssh EXCEPT ![t] = r.ssh]
         /\ IF r.ok
               THEN pc' = [pc EXCEPT ![t] = "pin"] /\ UNCHANGED <<loc, stream>>
               ELSE Raise(t, loc[t], "SSH connection failed")
    /\ UNCHANGED <<dbVars, blobs, remoteVars, helperVars, sideVars>>

\* DkSaveFingerprint without `platform.known_host_fingerprint = fingerprint;
\* db.commit()`
DkSaveFingerprint_NoCommit(t) ==
    /\ pc[t] = "pin" /\ loc[t].type = "deploy"
    /\ LET fingerprint == GetHostFingerprint(ssh[t])
       IN IF loc[t].known = NoFp /\ fingerprint # NoFp
            THEN Proceed(t, [loc[t] EXCEPT !.known = fingerprint],
                         <<"progress", "progress">>, "deploy")
            ELSE Proceed(t, loc[t], <<"progress">>, "deploy")
    /\ UNCHANGED <<taskRun, platform, sshKeys, revoked, blobs, ssh, remoteVars, helperVars, sideVars>>

\* lines 175-183: save the host fingerprint if the row read had none
DkSaveFingerprint(t) ==
    /\ pc[t] = "pin" /\ loc[t].type = "deploy"
    /\ LET fingerprint == GetHostFingerprint(ssh[t])
       IN IF loc[t].known = NoFp /\ fingerprint # NoFp
            THEN IF platform.exists
                   THEN /\ platform' = [platform EXCEPT !.known_host_fingerprint = fingerprint]
                        /\ Proceed(t, [loc[t] EXCEPT !.known = fingerprint],
                                    <<"progress", "progress">>, "deploy")
                   ELSE Raise(t, loc[t], "platform row is gone") /\ UNCHANGED platform
            ELSE Proceed(t, loc[t], <<"progress">>, "deploy") /\ UNCHANGED platform
    /\ UNCHANGED <<taskRun, sshKeys, revoked, blobs, ssh, remoteVars, helperVars, sideVars>>

\* lines 185-192
DkDeploy(t) ==
    /\ pc[t] = "deploy" /\ loc[t].type = "deploy"
    /\ \E r \in DeployAuthorizedKeys(ssh[t], fs, dirExists,
                                      {PublicKey(k) : k \in loc[t].keys}) :
         /\ fs' = r.fs /\ dirExists' = r.dir
         /\ IF r.ok
               THEN Proceed(t, [loc[t] EXCEPT !.added = r.added], <<"progress">>, "archive")
               ELSE Raise(t, loc[t], "Key deployment failed")
    /\ UNCHANGED <<dbVars, blobs, ssh, clock, nextIno, helperVars, sideVars>>

\* lines 194-199: snapshot read, upload_to_s3, ssh.close()
DkArchive(t) ==
    /\ pc[t] = "archive" /\ loc[t].type = "deploy"
    /\ \E stored \in BOOLEAN :
         IF stored
           THEN /\ blobs' = blobs \cup {t}
                /\ ssh' = [ssh EXCEPT ![t] = Close(@)]
                /\ pc' = [pc EXCEPT ![t] = "finish"]
                /\ UNCHANGED <<loc, stream>>
           ELSE Raise(t, loc[t], "upload failed") /\ UNCHANGED <<blobs, ssh>>
    /\ UNCHANGED <<dbVars, remoteVars, helperVars, sideVars>>

\* DkPersistSuccess without `task_run.status = TaskStatusEnum.SUCCESS`
DkPersistSuccess_NoStatus(t) ==
    /\ pc[t] = "finish" /\ loc[t].type = "deploy"
    /\ taskRun' = [taskRun EXCEPT ![t].finished_at = @ + 1,
                                  ![t].result_location = TRUE]
    /\ pc' = [pc EXCEPT ![t] = "publish_done"]
    /\ UNCHANGED <<platform, sshKeys, revoked, loc, stream, blobs, ssh, remoteVars, helperVars, sideVars>>

\* lines 201-206
DkPersistSuccess(t) ==
    /\ pc[t] = "finish" /\ loc[t].type = "deploy"
    /\ taskRun' = [taskRun EXCEPT ![t].status = "success",
                                  ![t].finished_at = @ + 1,
                                  ![t].result_location = TRUE]
    /\ pc' = [pc EXCEPT ![t] = "publish_done"]
    /\ UNCHANGED <<platform, sshKeys, revoked, loc, stream, blobs, ssh, remoteVars, helperVars, sideVars>>

\* line 208; the invocation returns and its locals are gone
DkPublishDone(t) ==
    /\ pc[t] = "publish_done" /\ loc[t].type = "deploy"
    /\ Proceed(t, Unwound(loc[t], ""), <<"done">>, "returned")
    /\ UNCHANGED <<dbVars, blobs, ssh, remoteVars, helperVars, sideVars>>

\* execute_command(command, timeout): what the call can do on session s.
\* "returned" carries (exit_code, stdout, stderr); "raised" is the RuntimeError
\* of a session without client or an SSHException of the channel; "blocked" is
\* recv_exit_status() waiting for a command that never exits (the timeout
\* given to exec_command bounds reads of the channel, not this wait)
ExitCodes == {0, 3}
OutputSizes == {<<0, 0>>, <<InlineLimit, InlineLimit>>, <<InlineLimit, InlineLimit + 1>>,
                <<InlineLimit + 1, 0>>, <<ArchiveThreshold + 1, 0>>}
NoOutput == [outcome |-> "raised", exit_code |-> 0, stdout |-> 0, stderr |-> 0,
             out_lines |-> 0, err_lines |-> 0]

ExecuteCommand(s) ==
    IF s.client # "live" THEN {NoOutput}
    ELSE {NoOutput, [NoOutput EXCEPT !.outcome = "blocked"]}
         \cup {[outcome |-> "returned", exit_code |-> e, stdout |-> z[1], stderr |-> z[2],
                out_lines |-> IF z[1] = 0 THEN 0 ELSE MaxOutLines,
                err_lines |-> IF z[2] = 0 THEN 0 ELSE MaxOutLines]
                : e \in ExitCodes, z \in OutputSizes}

\* what the runner keeps inline of a captured stream of `len` characters
Inline(len) ==
    IF len <= InlineLimit THEN [len |-> len, truncated |-> FALSE]
    ELSE [len |-> InlineLimit, truncated |-> TRUE]

\* run_command_task, line 254
RcPublishStart(t) ==
    /\ pc[t] = "started" /\ loc[t].type = "run_command"
    /\ Proceed(t, loc[t], <<"progress">>, "lookup")
    /\ UNCHANGED <<dbVars, blobs, ssh, remoteVars, helperVars, sideVars>>

\* lines 256-259
RcGetPlatform(t) ==
    /\ pc[t] = "lookup" /\ loc[t].type = "run_command"
    /\ IF platform.exists
          THEN Proceed(t, [loc[t] EXCEPT !.known = platform.known_host_fingerprint],
                       <<>>, "resolve")
          ELSE Raise(t, loc[t], "Platform not found")
    /\ UNCHANGED <<dbVars, blobs, ssh, remoteVars, helperVars, sideVars>>

\* lines 261-284
RcResolve(t) ==
    /\ pc[t] = "resolve" /\ loc[t].type = "run_command"
    /\ LET nl == [loc[t] EXCEPT !.password = ResolvePassword(platform.cred),
                                !.private_key = ResolvePrivateKey(platform.cred, sshKeys)]
       IN \/ /\ nl.password # "none" \/ nl.private_key # "none"
             /\ Raise(t, loc[t], "decrypt failed")
             /\ UNCHANGED ssh
          \/ /\ Proceed(t, nl, <<>>, "connect")
             /\ ssh' = [ssh EXCEPT ![t] = NewHelper(loc[t].known)]
    /\ UNCHANGED <<dbVars, blobs, remoteVars, helperVars, sideVars>>

\* lines 286-290
RcConnect(t) ==
    /\ pc[t] = "connect" /\ loc[t].type = "run_command"
    /\ \E r \in Connect(ssh[t]) :
         /\ ssh' = [ssh EXCEPT ![t] = r.ssh]
         /\ IF r.ok
               THEN Proceed(t, loc[t], <<"progress">>, "execute")
               ELSE Raise(t, loc[t], "SSH connection failed")
    /\ UNCHANGED <<dbVars, blobs, remoteVars, helperVars, sideVars>>

\* line 293
RcExecute(t) ==
    /\ pc[t] = "execute" /\ loc[t].type = "run_command"
    /\ \E r \in ExecuteCommand(ssh[t]) :
         CASE r.outcome = "returned" ->
                Proceed(t, [loc[t] EXCEPT !.exit_code = r.exit_code,
                                          !.stdout = r.stdout, !.stderr = r.stderr,
                                          !.out_lines = r.out_lines,
                                          !.err_lines = r.err_lines],
                        <<>>, "output")
           [] r.outcome = "raised" -> Raise(t, loc[t], "command execution failed")
           [] OTHER -> /\ pc' = [pc EXCEPT ![t] = "blocked"]
                       /\ UNCHANGED <<loc, stream>>
    /\ UNCHANGED <<dbVars, blobs, ssh, remoteVars, helperVars, sideVars>>

\* lines 295-306: one event per non-empty line, then ssh.close()
RcStreamOutput(t) ==
    /\ pc[t] = "output" /\ loc[t].type = "run_command"
    /\ Proceed(t, loc[t], [i \in 1..(loc[t].out_lines + loc[t].err_lines) |->
                              IF i <= loc[t].out_lines THEN "stdout" ELSE "stderr"], "archive")
    /\ ssh' = [ssh EXCEPT ![t] = IF pc'[t] = "archive" THEN Close(@) ELSE @]
    /\ UNCHANGED <<dbVars, blobs, remoteVars, helperVars, sideVars>>

\* lines 308-314: upload the combined output when it exceeds the threshold
RcArchive(t) ==
    /\ pc[t] = "archive" /\ loc[t].type = "run_command"
    /\ IF loc[t].stdout + loc[t].stderr > ArchiveThreshold
          THEN \E stored \in BOOLEAN :
                 IF stored
                   THEN /\ blobs' = blobs \cup {t}
                        /\ pc' = [pc EXCEPT ![t] = "finish"]
                        /\ UNCHANGED <<loc, stream>>
                   ELSE Raise(t, loc[t], "upload failed") /\ UNCHANGED blobs
          ELSE /\ pc' = [pc EXCEPT ![t] = "finish"]
               /\ UNCHANGED <<loc, stream, blobs>>
    /\ UNCHANGED <<dbVars, ssh, remoteVars, helperVars, sideVars>>

\* lines 316-323
RcPersistResult(t) ==
    /\ pc[t] = "finish" /\ loc[t].type = "run_command"
    /\ taskRun' = [taskRun EXCEPT
          ![t].status = IF loc[t].exit_code = 0 THEN "success" ELSE "failed",
          ![t].finished_at = @ + 1,
          ![t].stdout = Inline(loc[t].stdout),
          ![t].stderr = Inline(loc[t].stderr),
          ![t].result_location = t \in blobs,
          ![t].exit_code = loc[t].exit_code]
    /\ pc' = [pc EXCEPT ![t] = "publish_done"]
    /\ UNCHANGED <<platform, sshKeys, revoked, loc, stream, blobs, ssh, remoteVars, helperVars, sideVars>>

\* lines 325-326
RcPublishDone(t) ==
    /\ pc[t] = "publish_done" /\ loc[t].type = "run_command"
    /\ Proceed(t, Unwound(loc[t], ""), <<"done">>, "returned")
    /\ UNCHANGED <<dbVars, blobs, ssh, remoteVars, helperVars, sideVars>>

\* PersistFailed without the writes of status and error_message
PersistFailed_NoWrite(t) ==
    /\ pc[t] = "except"
    /\ taskRun' = [taskRun EXCEPT ![t].finished_at = @ + 1]
    /\ pc' = [pc EXCEPT ![t] = "publish_error"]
    /\ UNCHANGED <<platform, sshKeys, revoked, loc, stream, blobs, ssh, remoteVars, helperVars, sideVars>>

\* except clause, lines 211-221 (329-339): persist FAILED with str(e)
PersistFailed(t) ==
    /\ pc[t] = "except"
    /\ taskRun' = [taskRun EXCEPT ![t].status = "failed",
                                  ![t].finished_at = @ + 1,
                                  ![t].error_message = loc[t].err]
    /\ pc' = [pc EXCEPT ![t] = "publish_error"]
    /\ UNCHANGED <<platform, sshKeys, revoked, loc, stream, blobs, ssh, remoteVars, helperVars, sideVars>>

\* lines 223-224 (341-342): publish the error event, re-raise to the worker;
\* err is then the text of the exception that reaches the worker, e or, when
\* the publish itself raised, the publish error
PublishErrorAndRaise(t) ==
    /\ pc[t] = "publish_error"
    /\ \E sent \in BOOLEAN :
         /\ stream' = [stream EXCEPT ![t] = IF sent THEN Append(@, "error") ELSE @]
         /\ loc' = [loc EXCEPT ![t] = Unwound(@, IF sent THEN @.err ELSE "publish failed")]
    /\ pc' = [pc EXCEPT ![t] = "raised"]
    /\ UNCHANGED <<dbVars, blobs, ssh, remoteVars, helperVars, sideVars>>

\* the worker's steps of task t
Runner(t) ==
    \/ MarkRunning(t)
    \/ DkPublishStart(t) \/ DkGetPlatform(t) \/ DkResolve(t) \/ DkConnect(t)
    \/ DkSaveFingerprint(t) \/ DkDeploy(t) \/ DkArchive(t)
    \/ DkPersistSuccess(t) \/ DkPublishDone(t)
    \/ RcPublishStart(t) \/ RcGetPlatform(t) \/ RcResolve(t) \/ RcConnect(t)
    \/ RcExecute(t) \/ RcStreamOutput(t) \/ RcArchive(t)
    \/ RcPersistResult(t) \/ RcPublishDone(t)
    \/ PersistFailed(t) \/ PublishErrorAndRaise(t)

KeyIdLists == {{}, {"k1"}, KeyIds}

Next ==
    \/ \E t \in Tasks : \E key_ids \in KeyIdLists : deploy_keys(t, key_ids)
    \/ \E t \in Tasks : run_command(t)
    \/ delete_platform
    \/ \E t \in Tasks : Runner(t)

Spec == Init /\ [][Next]_vars

\* a worker that has taken a task keeps executing it
FairSpec == Spec /\ \A t \in Tasks : WF_vars(Runner(t))

\* ------------------------------ one task, any credentials, keys deleted
\* The rows a platform can hold: create_platform stores a password or a key
\* reference, the imports store neither, rows of older versions hold an inline
\* private key; the foreign key keeps a referenced SSHKey in the table
Creds == [auth_method : {"password", "private_key"}, encrypted_password : BOOLEAN,
          ssh_key_id : {"none"} \cup KeyIds, encrypted_private_key : BOOLEAN]

NCredTasks == 1
CredTasks == 1..NCredTasks

CredInit ==
    /\ taskRun = [t \in Tasks |-> NoRow]
    /\ \E cred \in Creds :
         platform = [exists |-> TRUE, cred |-> cred, known_host_fingerprint |-> NoFp]
    /\ sshKeys = KeyIds
    /\ revoked = [t \in Tasks |-> 0]
    /\ pc = [t \in Tasks |-> "none"]
    /\ loc = [t \in Tasks |-> NoLocals]
    /\ stream = [t \in Tasks |-> <<>>]
    /\ blobs = {}
    /\ ssh = [t \in Tasks |-> NoSession]
    /\ InitRemote
    /\ InitHelpers
    /\ InitSide

CredNext ==
    \/ \E t \in CredTasks : \E key_ids \in KeyIdLists : deploy_keys(t, key_ids)
    \/ \E t \in CredTasks : run_command(t)
    \/ \E k \in KeyIds : delete_key(k)
    \/ \E t \in CredTasks : Runner(t)

CredSpec == CredInit /\ [][CredNext]_vars

\* --------------------------- one task, its enqueueing request, revocation
NApiTasks == 1
ApiTasks == 1..NApiTasks

\* the handlers around one task: the request that enqueues it, in its two
\* commits, a revoke request, and the worker
ApiNext ==
    \/ \E t \in ApiTasks : \E key_ids \in KeyIdLists : deploy_keys(t, key_ids)
    \/ \E t \in ApiTasks : run_command(t)
    \/ \E t \in ApiTasks : set_celery_task_id(t)
    \/ \E t \in ApiTasks : revoke_task(t)
    \/ \E t \in ApiTasks : Runner(t)

ApiSpec == Init /\ [][ApiNext]_vars

\* ------------------------------------- SSHHelper calls, SFTP step by step
runnerVars == <<taskRun, platform, sshKeys, revoked, pc, loc, stream, blobs>>

\* authorized_keys as an account can hold it before any deployment: a foreign
\* key, or a hand-edited file with a comment, a padded key and a blank line
InitialContents == {<<"X">>, <<"# managed", " A", "", "X">>}

\* the key sets callers deploy
KeyArgs == {{"A"}, {"B "}, {"A", "B "}}

\* sessions after a successful connect(), an account with or without the file
HelperInit ==
    /\ taskRun = [t \in Tasks |-> NoRow]
    /\ platform = [exists |-> TRUE, cred |-> PasswordCred, known_host_fingerprint |-> "fpA"]
    /\ sshKeys = KeyIds
    /\ revoked = [t \in Tasks |-> 0]
    /\ pc = [t \in Tasks |-> "none"]
    /\ loc = [t \in Tasks |-> NoLocals]
    /\ stream = [t \in Tasks |-> <<>>]
    /\ blobs = {}
    /\ ssh = [t \in Tasks |-> [client |-> "live", known |-> "fpA", hostkey |-> "fpA"]]
    /\ \/ /\ fs = [p \in Paths |-> NoFile]
          /\ dirExists \in BOOLEAN
       \/ /\ \E data \in InitialContents :
               fs = [p \in Paths |-> IF p = AkPath
                                       THEN [exists |-> TRUE, ino |-> 1, data |-> data,
                                             mode |-> "0600"]
                                       ELSE NoFile]
          /\ dirExists = TRUE
    /\ clock = 0
    /\ nextIno = 2
    /\ InitHelpers
    /\ InitSide

\* int(time.time()) advances
Tick ==
    /\ clock < MaxClock
    /\ clock' = clock + 1
    /\ UNCHANGED <<runnerVars, ssh, fs, dirExists, nextIno, helperVars, sideVars>>

\* `return (success, message)` of deploy_authorized_keys with locals l, the
\* remote files being `files`
Return(t, l, result, added, files) ==
    /\ hpc' = [hpc EXCEPT ![t] = "idle"]
    /\ hloc' = [hloc EXCEPT ![t] = [l EXCEPT !.result = result, !.added = added,
                                             !.handle = 0,
                                             !.after = files[AkPath].data]]

\* a caller enters deploy_authorized_keys(public_keys)
CallDeployAuthorizedKeys(t, public_keys) ==
    /\ hpc[t] = "idle"
    /\ hloc[t].calls < MaxCalls
    /\ hpc' = [hpc EXCEPT ![t] = "ensure_directory"]
    /\ hloc' = [hloc EXCEPT ![t] = [NoCall EXCEPT !.public_keys = public_keys,
                                                  !.calls = hloc[t].calls + 1,
                                                  !.last_op = "deploy",
                                                  !.handed = HandedToClient(ssh[t]),
                                                  !.start = fs[AkPath].data]]
    /\ UNCHANGED <<runnerVars, ssh, remoteVars, sideVars>>

\* lines 310-312: ensure_directory(ssh_dir, 0o700)
StepEnsureDirectory(t) ==
    /\ hpc[t] = "ensure_directory"
    /\ \E d \in EnsureDirectory(ssh[t], dirExists) :
         /\ dirExists' = d.dir
         /\ IF d.ok
               THEN hpc' = [hpc EXCEPT ![t] = "read_file"] /\ UNCHANGED hloc
               ELSE Return(t, hloc[t], "failed", 0, fs)
    /\ UNCHANGED <<runnerVars, ssh, fs, clock, nextIno, sideVars>>

\* lines 317-329: read_file(...) or "", existing_lines, new_keys, merged_keys,
\* new_content
StepReadFile(t) ==
    /\ hpc[t] = "read_file"
    /\ \E okRead \in BOOLEAN :
         LET r == ReadFile(ssh[t], fs, AkPath, okRead)
             existing_lines == ExistingLines(r.data)
             merged_keys == MergeKeys(existing_lines, NewKeys(hloc[t].public_keys))
         IN hloc' = [hloc EXCEPT ![t].existing_lines = existing_lines,
                                 ![t].read_ok = okRead \/ ~fs[AkPath].exists,
                                 ![t].new_content = NewContent(merged_keys),
                                 ![t].added = AddedCount(merged_keys, existing_lines)]
    /\ hpc' = [hpc EXCEPT ![t] = "open_temp"]
    /\ UNCHANGED <<runnerVars, ssh, remoteVars, sideVars>>

\* write_file_atomic lines 274-280: temp_path from the clock's second;
\* sftp.file(temp_path, "w") creates the file or truncates the one of that name
StepOpenTemp(t) ==
    /\ hpc[t] = "open_temp"
    /\ LET temp_path == TmpPath(clock)
       IN \E ok \in BOOLEAN :
            IF ok /\ ssh[t].client = "live"
              THEN /\ fs' = [fs EXCEPT ![temp_path] =
                              IF @.exists THEN [@ EXCEPT !.data = <<>>]
                              ELSE [exists |-> TRUE, ino |-> nextIno, data |-> <<>>,
                                    mode |-> "0644"]]
                   /\ nextIno' = IF fs[temp_path].exists THEN nextIno ELSE nextIno + 1
                   /\ hloc' = [hloc EXCEPT ![t].temp_path = temp_path,
                                           ![t].handle = fs'[temp_path].ino]
                   /\ hpc' = [hpc EXCEPT ![t] = "write_temp"]
              ELSE /\ Return(t, hloc[t], "failed", 0, fs)
                   /\ UNCHANGED <<fs, nextIno>>
    /\ UNCHANGED <<runnerVars, ssh, dirExists, clock, sideVars>>

\* what a file holds after `content` is written from offset 0 over `old`
Overlay(content, old) == content \o SubSeq(old, Len(content) + 1, Len(old))

\* lines 280-281: f.write(content) and the close of the `with`: the content
\* goes to the file the handle opened, under whatever name it has by now
StepWriteTemp(t) ==
    /\ hpc[t] = "write_temp"
    /\ fs' = [p \in Paths |->
                IF fs[p].exists /\ fs[p].ino = hloc[t].handle
                  THEN [fs[p] EXCEPT !.data = Overlay(hloc[t].new_content, @)]
                  ELSE fs[p]]
    /\ hpc' = [hpc EXCEPT ![t] = "chmod"]
    /\ UNCHANGED <<runnerVars, ssh, dirExists, clock, nextIno, hloc, sideVars>>

\* line 284: sftp.chmod(temp_path, mode) raises when the name is gone
StepChmod(t) ==
    /\ hpc[t] = "chmod"
    /\ IF fs[hloc[t].temp_path].exists
         THEN /\ fs' = [fs EXCEPT ![hloc[t].temp_path].mode = "0600"]
              /\ hpc' = [hpc EXCEPT ![t] = "rename"]
              /\ UNCHANGED hloc
         ELSE Return(t, hloc[t], "failed", 0, fs) /\ UNCHANGED fs
    /\ UNCHANGED <<runnerVars, ssh, dirExists, clock, nextIno, sideVars>>

\* lines 288-291 and 332-338: sftp.rename(temp_path, path); a server may refuse
\* to rename over an existing target; then the result of the deployment
StepRename(t) ==
    /\ hpc[t] = "rename"
    /\ \E ok \in (IF fs[AkPath].exists THEN BOOLEAN ELSE {TRUE}) :
         IF ok /\ fs[hloc[t].temp_path].exists
           THEN /\ fs' = [fs EXCEPT ![AkPath] = fs[hloc[t].temp_path],
                                    ![hloc[t].temp_path] = NoFile]
                /\ Return(t, hloc[t], "ok", hloc[t].added, fs')
           ELSE /\ Return(t, hloc[t], "failed", 0, fs)
                /\ UNCHANGED fs
    /\ UNCHANGED <<runnerVars, ssh, dirExists, clock, nextIno, sideVars>>

\* the steps of the deploy_authorized_keys call of session t
DeploySteps(t) ==
    \/ StepEnsureDirectory(t) \/ StepReadFile(t) \/ StepOpenTemp(t)
    \/ StepWriteTemp(t) \/ StepChmod(t) \/ StepRename(t)

\* concurrent deployments by independent sessions on one account
HelperNext ==
    \/ \E t \in Tasks : \E public_keys \in KeyArgs : CallDeployAuthorizedKeys(t, public_keys)
    \/ \E t \in Tasks : DeploySteps(t)
    \/ Tick

HelperSpec == HelperInit /\ [][HelperNext]_vars

\* a deployment entered while no other deployment is in progress
CallDeployAlone(t, public_keys) ==
    /\ \A u \in Tasks : hpc[u] = "idle"
    /\ CallDeployAuthorizedKeys(t, public_keys)

\* deployments one after the other
SerialNext ==
    \/ \E t \in Tasks : \E public_keys \in KeyArgs : CallDeployAlone(t, public_keys)
    \/ \E t \in Tasks : DeploySteps(t)
    \/ Tick

SerialSpec == HelperInit /\ [][SerialNext]_vars

\* ------------------------------------------ SSHHelper calls of one caller
\* helpers as constructed, with or without a pinned fingerprint
SessionInit ==
    /\ taskRun = [t \in Tasks |-> NoRow]
    /\ platform = [exists |-> TRUE, cred |-> PasswordCred, known_host_fingerprint |-> NoFp]
    /\ sshKeys = KeyIds
    /\ revoked = [t \in Tasks |-> 0]
    /\ pc = [t \in Tasks |-> "none"]
    /\ loc = [t \in Tasks |-> NoLocals]
    /\ stream = [t \in Tasks |-> <<>>]
    /\ blobs = {}
    /\ ssh \in {f \in [Tasks -> {NoSession, NewHelper("fpA")}] :
                    \A t \in Tasks \ Sessions : f[t] = NoSession}
    /\ InitRemote
    /\ InitHelpers
    /\ InitSide

\* what the caller keeps of a call `op` on its session: its result and
\* whether any call since the last connect() was handed to the client
Called(t, op, result) ==
    [hloc[t] EXCEPT !.last_op = op, !.result = result,
                    !.handed = @ \/ HandedToClient(ssh[t])]

\* connect()
SessConnect(t) ==
    /\ hpc[t] = "idle"
    /\ \E r \in Connect(ssh[t]) :
         /\ ssh' = [ssh EXCEPT ![t] = r.ssh]
         /\ hloc' = [hloc EXCEPT ![t] = [@ EXCEPT !.last_op = "connect",
                                                  !.result = IF r.ok THEN "ok" ELSE "failed",
                                                  !.connect_error = r.error,
                                                  !.expected = r.expected,
                                                  !.got = r.got,
                                                  !.presented = r.presented,
                                                  !.handed = FALSE]]
    /\ UNCHANGED <<runnerVars, remoteVars, hpc, sideVars>>

\* execute_command(command, timeout)
SessExecute(t) ==
    /\ hpc[t] = "idle"
    /\ \E outcome \in {r.outcome : r \in ExecuteCommand(ssh[t])} :
         /\ hloc' = [hloc EXCEPT ![t] = Called(t, "execute", outcome)]
         /\ hpc' = [hpc EXCEPT ![t] = IF outcome = "blocked" THEN "blocked" ELSE "idle"]
    /\ UNCHANGED <<runnerVars, ssh, remoteVars, sideVars>>

\* read_file(authorized_keys_path)
SessReadFile(t) ==
    /\ hpc[t] = "idle"
    /\ \E okRead \in BOOLEAN :
         hloc' = [hloc EXCEPT ![t] =
                    Called(t, "read", IF ReadFile(ssh[t], fs, AkPath, okRead).found
                                        THEN "ok" ELSE "none")]
    /\ UNCHANGED <<runnerVars, ssh, remoteVars, hpc, sideVars>>

\* write_file_atomic(authorized_keys_path, content)
SessWriteFileAtomic(t, content) ==
    /\ hpc[t] = "idle"
    /\ \E w \in WriteFileAtomic(ssh[t], fs, AkPath, content) :
         /\ fs' = w.fs
         /\ hloc' = [hloc EXCEPT ![t] = Called(t, "write", IF w.ok THEN "ok" ELSE "failed")]
    /\ UNCHANGED <<runnerVars, ssh, dirExists, clock, nextIno, hpc, sideVars>>

\* deploy_authorized_keys(public_keys)
SessDeploy(t, public_keys) ==
    /\ hpc[t] = "idle"
    /\ \E r \in DeployAuthorizedKeys(ssh[t], fs, dirExists, public_keys) :
         /\ fs' = r.fs /\ dirExists' = r.dir
         /\ hloc' = [hloc EXCEPT ![t] = Called(t, "deploy", IF r.ok THEN "ok" ELSE "failed")]
    /\ UNCHANGED <<runnerVars, ssh, clock, nextIno, hpc, sideVars>>

\* close()
SessClose(t) ==
    /\ hpc[t] = "idle"
    /\ ssh[t].client # "None"
    /\ ssh' = [ssh EXCEPT ![t] = Close(@)]
    /\ hloc' = [hloc EXCEPT ![t].last_op = "close"]
    /\ UNCHANGED <<runnerVars, remoteVars, hpc, sideVars>>

SessionNext ==
    \/ \E t \in Sessions : SessConnect(t)
    \/ \E t \in Sessions : SessExecute(t)
    \/ \E t \in Sessions : SessReadFile(t)
    \/ \E t \in Sessions : \E public_keys \in KeyArgs :
         SessWriteFileAtomic(t, NewContent(NewKeys(public_keys)))
    \/ \E t \in Sessions : \E public_keys \in KeyArgs : SessDeploy(t, public_keys)
    \/ \E t \in Sessions : SessClose(t)

SessionSpec == SessionInit /\ [][SessionNext]_vars

\* ------------------------------------------------- stream bridge (ws.py)
\* a frame sent to a WebSocket: event n of task's channel, or (task 0) a
\* frame the bridge itself composed
EventKinds == {"progress", "done", "error"}
Event(t, n, kind) == [task |-> t, n |-> n, kind |-> kind]
\* {"ts": "", "type": "progress", "payload": "Connected to task stream: ..."}
Greeting == Event(0, 0, "progress")
\* {"error": str(e)} of the outer except clause
BridgeError == Event(0, 0, "bridge_error")

engineVars == <<taskRun, platform, sshKeys, revoked, pc, loc, blobs, ssh,
                fs, dirExists, clock, nextIno, hpc, hloc>>

\* publish_task_message(task_id, msg_type, payload): Redis hands the message
\* to every connection subscribed to the channel at that moment; the runner
\* publishes nothing after its done or error event
publish_task_message(t, kind) ==
    /\ Len(stream[t]) < MaxEvents
    /\ \A i \in 1..Len(stream[t]) : stream[t][i] \notin {"done", "error"}
    /\ stream' = [stream EXCEPT ![t] = Append(@, kind)]
    /\ observers' = [o \in Observers |->
          IF observers[o].state = "open" /\ observers[o].topic = t
             THEN [observers[o] EXCEPT !.buffer = Append(@, Event(t, Len(stream[t]) + 1, kind))]
             ELSE observers[o]]
    /\ UNCHANGED <<engineVars, jobs, box>>

\* task_stream_websocket up to create_task(redis_listener()): accept,
\* subscribe, send the connection message; a subscribe that raises is
\* answered with an error frame and the socket is closed
WsConnect(o, t) ==
    /\ observers[o].state = "none"
    /\ \/ observers' = [observers EXCEPT ![o] =
             [state |-> "open", topic |-> t, since |-> Len(stream[t]),
              buffer |-> <<>>, frames |-> <<Greeting>>]]
       \/ observers' = [observers EXCEPT ![o] =
             [state |-> "closed", topic |-> t, since |-> Len(stream[t]),
              buffer |-> <<>>, frames |-> <<BridgeError>>]]
    /\ UNCHANGED <<engineVars, stream, jobs, box>>

\* redis_listener, one message: websocket.send_text(data)
WsRelay(o) ==
    /\ observers[o].state = "open" /\ observers[o].buffer # <<>>
    /\ observers' = [observers EXCEPT ![o].frames = Append(@, Head(observers[o].buffer)),
                                      ![o].buffer = Tail(@)]
    /\ UNCHANGED <<engineVars, stream, jobs, box>>

\* send_text raises: the listener breaks, the socket is gone
WsSendFails(o) ==
    /\ observers[o].state = "open" /\ observers[o].buffer # <<>>
    /\ observers' = [observers EXCEPT ![o].state = "closed", ![o].buffer = <<>>]
    /\ UNCHANGED <<engineVars, stream, jobs, box>>

\* pubsub.listen() raises (Redis connection lost): the listener logs and
\* ends, the handler stays in its receive_text() loop
WsListenerError(o) ==
    /\ observers[o].state = "open"
    /\ observers' = [observers EXCEPT ![o].state = "stalled", ![o].buffer = <<>>]
    /\ UNCHANGED <<engineVars, stream, jobs, box>>

\* WebSocketDisconnect: cancel the listener, unsubscribe, close
WsDisconnect(o) ==
    /\ observers[o].state \in {"open", "stalled"}
    /\ observers' = [observers EXCEPT ![o].state = "closed", ![o].buffer = <<>>]
    /\ UNCHANGED <<engineVars, stream, jobs, box>>

BridgeNext ==
    \/ \E t \in Tasks : \E kind \in EventKinds : publish_task_message(t, kind)
    \/ \E o \in Observers : \E t \in Tasks : WsConnect(o, t)
    \/ \E o \in Observers : WsRelay(o)
    \/ \E o \in Observers : WsSendFails(o)
    \/ \E o \in Observers : WsListenerError(o)
    \/ \E o \in Observers : WsDisconnect(o)

BridgeSpec == Init /\ [][BridgeNext]_vars

\* ------------------------------------------ automation jobs (automations.py)
\* platform ids a request can name: two rows of the platforms table and an id
\* without a row
PlatformIds == {"p1", "p2"}
RequestIds == PlatformIds \cup {"px"}

\* POST /automations: AutomationJobCreate validation, the duplicate and
\* existence checks of the targeted case, the job row and its links.
\* ids is set(target_platform_ids), dup whether the list repeated an id
create_job(j, run_all, ids, dup) ==
    /\ ~jobs[j].exists
    /\ jobs' = [jobs EXCEPT ![j] =
          IF ~run_all /\ (ids = {} \/ dup \/ ~(ids \subseteq PlatformIds))
            THEN [@ EXCEPT !.status_code = 400]
            ELSE [exists |-> TRUE, run_on_all_platforms |-> run_all,
                  platform_links |-> IF run_all THEN {} ELSE ids,
                  status_code |-> 201]]
    /\ UNCHANGED <<engineVars, stream, observers, box>>

\* PUT /automations/{id} with run_on_all_platforms and target_platform_ids
\* each present or absent in the body. `loaded` is job.platform_links as the
\* session holds it: the collection loaded before the new links are added
\* with db.add(), which does not put them into it
update_job(j, has_run_all, run_all, has_ids, ids, dup) ==
    /\ jobs[j].exists
    /\ LET job == jobs[j]
           run_on_all_platforms == IF has_run_all THEN run_all ELSE job.run_on_all_platforms
           loaded == job.platform_links
           retargeted == IF has_ids THEN ids ELSE job.platform_links
           after_cleanup == IF run_on_all_platforms /\ loaded # {}
                               THEN retargeted \ loaded ELSE retargeted
           refused ==
              \/ has_ids /\ dup
              \/ has_ids /\ ~run_on_all_platforms /\ ids = {}
              \/ has_ids /\ ~run_on_all_platforms /\ ~(ids \subseteq PlatformIds)
              \/ has_run_all /\ ~run_on_all_platforms /\ retargeted = {}
              \* the commit: a link to an id without a platform row
              \/ ~(after_cleanup \subseteq PlatformIds)
       IN jobs' = [jobs EXCEPT ![j] =
             IF refused THEN [@ EXCEPT !.status_code = 400]
             ELSE [@ EXCEPT !.run_on_all_platforms = run_on_all_platforms,
                            !.platform_links = after_cleanup,
                            !.status_code = 200]]
    /\ UNCHANGED <<engineVars, stream, observers, box>>

JobNext ==
    \/ \E j \in Jobs : \E run_all, dup \in BOOLEAN : \E ids \in SUBSET RequestIds :
         create_job(j, run_all, ids, dup)
    \/ \E j \in Jobs : \E has_run_all, run_all, has_ids, dup \in BOOLEAN :
         \E ids \in SUBSET RequestIds :
            update_job(j, has_run_all, run_all, has_ids, ids, dup)

JobSpec == Init /\ [][JobNext]_vars

\* ------------------------------------------------ CryptoHelper (crypto.py)
\* config.FERNET_KEY, and the key of some other installation
FERNET_KEY == 7
ForeignKey == 11
\* the 128-bit IV Fernet draws from os.urandom for every token
IVs == {1, 2}
\* AES block size in bytes, the version byte of a Fernet token
BlockSize == 16
FernetVersion == 128

\* plaintexts: byte strings over a NUL, an invalid byte and the two bytes of
\* U+00E9; strings over code points of one, two, three and four UTF-8 bytes
ByteAlphabet == {0, 169, 195, 255}
CodePoints == {65, 233, 8364, 128512}
SeqsUpTo(S, n) == UNION {[1..k -> S] : k \in 0..n}
ByteStrings == SeqsUpTo(ByteAlphabet, MaxPlainLen)
Strings == SeqsUpTo(CodePoints, MaxPlainLen)

\* str.encode("utf-8") of one code point
Utf8Char(c) ==
    IF c < 128 THEN <<c>>
    ELSE IF c < 2048 THEN <<192 + (c \div 64), 128 + (c % 64)>>
    ELSE IF c < 65536
      THEN <<224 + (c \div 4096), 128 + ((c \div 64) % 64), 128 + (c % 64)>>
    ELSE <<240 + (c \div 262144), 128 + ((c \div 4096) % 64),
           128 + ((c \div 64) % 64), 128 + (c % 64)>>

RECURSIVE utf8_encode(_)
utf8_encode(s) ==
    IF s = <<>> THEN <<>> ELSE Utf8Char(Head(s)) \o utf8_encode(Tail(s))

\* bytes.decode("utf-8"), strict: [ok, chars]
RECURSIVE utf8_decode(_)
utf8_decode(b) ==
    IF b = <<>> THEN [ok |-> TRUE, chars |-> <<>>]
    ELSE LET b0 == b[1]
             n == IF b0 < 128 THEN 1
                  ELSE IF b0 \in 194..223 THEN 2
                  ELSE IF b0 \in 224..239 THEN 3
                  ELSE IF b0 \in 240..244 THEN 4
                  ELSE 0
             wellformed == n > 0 /\ Len(b) >= n /\ \A i \in 2..n : b[i] \in 128..191
             cp == IF n = 1 THEN b0
                   ELSE IF n = 2 THEN (b0 - 192) * 64 + (b[2] - 128)
                   ELSE IF n = 3 THEN (b0 - 224) * 4096 + (b[2] - 128) * 64 + (b[3] - 128)
                   ELSE (b0 - 240) * 262144 + (b[2] - 128) * 4096
                        + (b[3] - 128) * 64 + (b[4] - 128)
             shortest == \/ n \in {1, 2}
                         \/ n = 3 /\ cp >= 2048 /\ cp \notin 55296..57343
                         \/ n = 4 /\ cp \in 65536..1114111
         IN IF ~wellformed THEN [ok |-> FALSE, chars |-> <<>>]
            ELSE IF ~shortest THEN [ok |-> FALSE, chars |-> <<>>]
            ELSE LET rest == utf8_decode(SubSeq(b, n + 1, Len(b)))
                 IN IF rest.ok THEN [ok |-> TRUE, chars |-> <<cp>> \o rest.chars]
                    ELSE rest

\* Fernet (cryptography.fernet), as far as CryptoHelper depends on it: PKCS7
\* padding to the block size, a keyed chained cipher standing for AES-CBC,
\* and an HMAC that only the holder of the key can compute, standing for
\* HMAC-SHA256.  The token's timestamp is left out: decrypt() is called
\* without a ttl and never reads it.
Pad(data) ==
    LET n == BlockSize - (Len(data) % BlockSize)
    IN data \o [i \in 1..n |-> n]

PadOk(padded) ==
    /\ Len(padded) > 0 /\ Len(padded) % BlockSize = 0
    /\ LET n == padded[Len(padded)]
       IN /\ n \in 1..BlockSize
          /\ \A i \in (Len(padded) - n + 1)..Len(padded) : padded[i] = n

Unpad(padded) == SubSeq(padded, 1, Len(padded) - padded[Len(padded)])

RECURSIVE CbcEncrypt(_, _, _)
CbcEncrypt(key, prev, padded) ==
    IF padded = <<>> THEN <<>>
    ELSE LET c == (Head(padded) + key + prev) % 256
         IN <<c>> \o CbcEncrypt(key, c, Tail(padded))

CbcDecrypt(key, iv, body) ==
    [i \in 1..Len(body) |->
        (body[i] - key - (IF i = 1 THEN iv ELSE body[i - 1])) % 256]

Hmac(key, iv, body) == <<key, iv, body>>

FernetEncrypt(key, iv, data) ==
    LET body == CbcEncrypt(key, iv, Pad(data))
    IN [version |-> FernetVersion, iv |-> iv, body |-> body,
        hmac |-> Hmac(key, iv, body)]

FernetDecrypt(key, token) ==
    IF token.version # FernetVersion \/ token.hmac # Hmac(key, token.iv, token.body)
      THEN [result |-> "InvalidToken", out |-> <<>>]
      ELSE LET padded == CbcDecrypt(key, token.iv, token.body)
           IN IF PadOk(padded) THEN [result |-> "ok", out |-> Unpad(padded)]
              ELSE [result |-> "InvalidToken", out |-> <<>>]

\* CryptoHelper; iv is what os.urandom hands Fernet.encrypt
encrypt_bytes(data, iv) == FernetEncrypt(FERNET_KEY, iv, data)

decrypt_bytes(encrypted_data) == FernetDecrypt(FERNET_KEY, encrypted_data)

encrypt_string(data, iv) == encrypt_bytes(utf8_encode(data), iv)

\* decrypt_string without `.decode("utf-8")`
decrypt_string_NoDecode(encrypted_data) == decrypt_bytes(encrypted_data)

decrypt_string(encrypted_data) ==
    LET r == decrypt_bytes(encrypted_data)
    IN IF r.result # "ok" THEN r
       ELSE LET d == utf8_decode(r.out)
            IN IF d.ok THEN [result |-> "ok", out |-> d.chars]
               ELSE [result |-> "UnicodeDecodeError", out |-> <<>>]

\* data a caller may hand to decrypt: the tokens encrypt returned, a token
\* with a byte of its body or its version changed, a token of another key
\* over the same plaintext, and the plaintext bytes themselves
PlainBytes(b) == IF b.kind = "str" THEN utf8_encode(b.plain) ELSE b.plain
Produced(b) == {b.tokens[i] : i \in 1..Len(b.tokens)}
Tampered(token) ==
    [token EXCEPT !.body = [@ EXCEPT ![1] = (@ + 1) % 256]]
Reversioned(token) == [token EXCEPT !.version = 0]
DecryptInputs(b) ==
    Produced(b)
      \cup {Tampered(k) : k \in Produced(b)}
      \cup {Reversioned(k) : k \in Produced(b)}
      \cup {FernetEncrypt(ForeignKey, iv, PlainBytes(b)) : iv \in IVs}
      \cup {[NoToken EXCEPT !.body = PlainBytes(b)]}

CryptoInit ==
    /\ taskRun = [t \in Tasks |-> NoRow]
    /\ platform = [exists |-> TRUE, cred |-> PasswordCred, known_host_fingerprint |-> NoFp]
    /\ sshKeys = KeyIds
    /\ revoked = [t \in Tasks |-> 0]
    /\ pc = [t \in Tasks |-> "none"]
    /\ loc = [t \in Tasks |-> NoLocals]
    /\ stream = [t \in Tasks |-> <<>>]
    /\ blobs = {}
    /\ ssh = [t \in Tasks |-> NoSession]
    /\ InitRemote
    /\ InitHelpers
    /\ observers = [o \in Observers |-> NoObserver]
    /\ jobs = [j \in Jobs |-> NoJob]
    /\ \/ \E data \in ByteStrings : box = [NoBox EXCEPT !.kind = "bytes", !.plain = data]
       \/ \E data \in Strings : box = [NoBox EXCEPT !.kind = "str", !.plain = data]

\* crypto.encrypt_bytes(plain) or crypto.encrypt_string(plain)
Encrypt(iv) ==
    /\ Len(box.tokens) < MaxTokens
    /\ LET token == IF box.kind = "bytes" THEN encrypt_bytes(box.plain, iv)
                    ELSE encrypt_string(box.plain, iv)
       IN box' = [box EXCEPT !.tokens = Append(@, token)]
    /\ UNCHANGED <<engineVars, stream, observers, jobs>>

\* crypto.decrypt_bytes(data) or crypto.decrypt_string(data)
Decrypt(op, data) ==
    /\ LET r == IF op = "decrypt_bytes" THEN decrypt_bytes(data)
                ELSE decrypt_string(data)
       IN box' = [box EXCEPT !.op = op, !.arg = data,
                             !.result = r.result, !.out = r.out]
    /\ UNCHANGED <<engineVars, stream, observers, jobs>>

CryptoNext ==
    \/ \E iv \in IVs : Encrypt(iv)
    \/ \E op \in {"decrypt_bytes", "decrypt_string"} :
         \E data \in DecryptInputs(box) : Decrypt(op, data)

CryptoSpec == CryptoInit /\ [][CryptoNext]_vars

\* ------------------------------------------------------------------ claims
Terminal == {"success", "failed"}

\* C1: once a task's persisted status is SUCCESS or FAILED it never changes
\* again, and finished_at is written exactly once for that task.
C1_TerminalWrittenOnce ==
    [][\A t \in Tasks :
         taskRun[t].status \in Terminal =>
            /\ taskRun'[t].status = taskRun[t].status
            /\ taskRun'[t].finished_at = taskRun[t].finished_at]_vars

\* C2: the persisted status only changes along created-PENDING,
\* PENDING->RUNNING, RUNNING->SUCCESS and RUNNING->FAILED, and RUNNING is
\* persisted before the runner publishes any event or creates its session.
StatusEdges == {<<"none", "pending">>, <<"pending", "running">>,
                <<"running", "success">>, <<"running", "failed">>}

C2_StatusEdges ==
    [][\A t \in Tasks :
         /\ taskRun'[t].status # taskRun[t].status =>
                <<taskRun[t].status, taskRun'[t].status>> \in StatusEdges
         /\ (stream'[t] # <<>> \/ ssh'[t] # NoSession) =>
                taskRun'[t].status \notin {"none", "pending"}]_vars

\* C3: every task for which RUNNING was persisted eventually has a terminal
\* status persisted.
C3_RunningLeadsToTerminal ==
    \A t \in Tasks :
        (taskRun[t].status = "running") ~> (taskRun[t].status \in Terminal)

\* C4: when a step of an invocation fails (platform lookup, key lookup,
\* credential resolution, connect, deployment or execution, archival) and the
\* invocation has ended, the task is persisted FAILED with the text of that
\* exception, the last event on its channel is the error event, and that
\* exception has reached the worker. (err is the exception that reached the
\* worker: the step's own, unless publishing the error event raised.)
StepFailures == {"Platform not found", "No keys found to deploy", "decrypt failed",
                 "SSH connection failed", "Key deployment failed",
                 "command execution failed", "upload failed"}

C5_UnionNeverShrinks ==
    \A t \in Tasks :
        (hpc[t] = "idle" /\ hloc[t].result = "ok")
            => (ExistingLines(hloc[t].start) \cup NewKeys(hloc[t].public_keys))
                   \subseteq ExistingLines(hloc[t].after)

\* a deployment past its read whose read returned the file and whose
\* temporary file is its own: no other session holds it, and it is not the
\* file authorized_keys names
Undisturbed(t) ==
    /\ hloc[t].read_ok
    /\ hloc[t].handle # 0 =>
         /\ \A u \in Tasks \ {t} : hloc[u].handle # hloc[t].handle
         /\ ~(fs[AkPath].exists /\ fs[AkPath].ino = hloc[t].handle)

\* C6: with concurrent deployments, a key present in authorized_keys stays
\* present at every later moment; stated for the steps taken while every
\* deployment in progress read the file successfully and has its own
\* temporary file
C6_KeysOnlyGrow ==
    [][(\A t \in Tasks : hpc[t] \in {"open_temp", "write_temp", "chmod", "rename"}
                            => Undisturbed(t))
          => ExistingLines(fs[AkPath].data) \subseteq ExistingLines(fs'[AkPath].data)]_vars

\* the complete contents authorized_keys can have: what the account started
\* with, or the serialization of a non-empty key set
Complete(data) ==
    \/ data \in InitialContents
    \/ \E merged_keys \in (SUBSET {"A", "B", "X"}) \ {{}} : data = NewContent(merged_keys)

\* C7: at every moment authorized_keys, when it exists, holds a complete
\* content (the previous one or a newly serialized key set) with mode 0600
C7_NeverPartial ==
    fs[AkPath].exists => Complete(fs[AkPath].data) /\ fs[AkPath].mode = "0600"

\* C8: a successful deployment onto the file a successful deployment of the
\* same key set left behind leaves the file as it was and reports zero added
C8_SecondDeployIsNoOp ==
    \A t \in Tasks : \A u \in Tasks \ {t} :
        (/\ hpc[t] = "idle" /\ hloc[t].result = "ok"
         /\ hpc[u] = "idle" /\ hloc[u].result = "ok"
         /\ hloc[t].public_keys = hloc[u].public_keys
         /\ hloc[t].start = hloc[u].after)
            => hloc[t].after = hloc[t].start /\ hloc[t].added = 0

C10_PinOnFirstConnect ==
    [][\A t \in Tasks :
         /\ (pc[t] = "pin" /\ pc'[t] # "pin" /\ loc[t].known = NoFp /\ platform.exists)
               => /\ ssh[t].hostkey \in Fingerprints
                  /\ platform'.known_host_fingerprint = ssh[t].hostkey
         /\ (pc[t] = "deploy" /\ pc'[t] # "deploy" /\ platform.exists)
               => platform.known_host_fingerprint # NoFp]_vars

C10_Witness ==
    \E t \in Tasks :
        /\ pc[t] = "deploy" /\ Len(stream[t]) = 5
        /\ ssh[t].client = "live"
        /\ platform.exists /\ platform.known_host_fingerprint = ssh[t].hostkey
        /\ ~fs[AkPath].exists


\* C11: the pinned fingerprint is persisted at most once per platform: once the
\* stored value is non-null no runner operation changes it, also when several
\* tasks run at once against a platform that started unpinned
C11_PinNeverChanges ==
    [][platform.known_host_fingerprint # NoFp
         => platform'.known_host_fingerprint = platform.known_host_fingerprint]_vars

\* C12: a run-command task pins like a deployment: it connects with the pinned
\* fingerprint when the platform has one, and when it has none the fingerprint
\* observed by the connection is persisted before the command is run
C12_RunCommandPins ==
    \A t \in Tasks :
        (loc[t].type = "run_command" /\ pc[t] = "execute" /\ platform.exists)
            => /\ ssh[t].known = loc[t].known
               /\ platform.known_host_fingerprint # NoFp

\* the credential material a platform row gives access to: the stored
\* password for the password method; for private_key the referenced SSHKey's
\* private key or the row's own inline key
HasMaterial(cred, keys) ==
    IF cred.auth_method = "password" THEN cred.encrypted_password
    ELSE \/ cred.ssh_key_id \in keys \cap PrivKeyIds
         \/ cred.encrypted_private_key

\* C13: when the platform's method is password and it stores no password, or
\* its method is private_key and no private key material is available, the
\* task fails before any SSH connection is attempted: no task calls connect()
\* for such a platform, and none ends SUCCESS
C13_NoConnectWithoutCredential ==
    [][\A t \in CredTasks :
         ~HasMaterial(platform.cred, sshKeys)
            => /\ pc[t] = "connect" => pc'[t] = "connect"
               /\ taskRun'[t].status # "success"]_vars

\* C14: for the private_key method the resolver yields key material whenever
\* the referenced SSHKey has a private key or the platform has an inline key,
\* the referenced key first: a task that goes on to connect holds the
\* referenced key if it has one, else the inline key if there is one
C14_ResolverUsesEitherSource ==
    \A t \in CredTasks :
        (pc[t] = "connect" /\ platform.cred.auth_method = "private_key"
                           /\ HasMaterial(platform.cred, sshKeys))
            => loc[t].private_key =
                  IF platform.cred.ssh_key_id \in sshKeys \cap PrivKeyIds
                     THEN "ssh_key" ELSE "inline"

\* C15: a deploy task given an explicit list of key ids never deploys a strict
\* subset of it: past the key lookup the keys it holds are exactly the
\* requested ones (a missing id or an empty result fails the task before
\* connect() instead)
C15_AllRequestedKeysOrNone ==
    \A t \in CredTasks :
        (loc[t].type = "deploy" /\ loc[t].key_ids # {}
            /\ pc[t] \in {"connect", "pin", "deploy", "archive", "finish", "publish_done"})
            => loc[t].keys = loc[t].key_ids

\* C16: a run-command task whose command returned an exit code ends SUCCESS if
\* and only if that exit code is zero and FAILED otherwise, with the exit code
\* recorded in the task's metadata: a row that records an exit code has the
\* status that exit code calls for
C16_StatusFollowsExitCode ==
    \A t \in Tasks :
        (taskRun[t].type = "run_command" /\ taskRun[t].exit_code # -1)
            => taskRun[t].status = IF taskRun[t].exit_code = 0 THEN "success" ELSE "failed"

\* C17: archival is best-effort: when the remote operation succeeded and only
\* the upload of its artifact failed, the terminal status is still SUCCESS.
\* Stated for deployments, whose upload follows the successful key deployment:
\* a deploy task whose run ended on the failed upload has status SUCCESS
C17_ArchivalFailureKeepsSuccess ==
    \A t \in Tasks :
        (loc[t].type = "deploy" /\ loc[t].err = "upload failed"
            /\ pc[t] \in {"publish_error", "raised"})
            => taskRun[t].status = "success"

\* C18: a finished run-command task is in one of two cases. Output under the
\* threshold: stdout and stderr are stored fully inline and the row has no
\* archival location. Output over the threshold: the full combined output is
\* archived, the row carries the archival location, and the inline copies
\* carry the truncation marker
C18_InlineOrArchived ==
    \A t \in Tasks :
        (loc[t].type = "run_command" /\ pc[t] = "publish_done")
            => \/ /\ ~taskRun[t].result_location
                  /\ taskRun[t].stdout = [len |-> loc[t].stdout, truncated |-> FALSE]
                  /\ taskRun[t].stderr = [len |-> loc[t].stderr, truncated |-> FALSE]
               \/ /\ taskRun[t].result_location
                  /\ t \in blobs
                  /\ taskRun[t].stdout.truncated \/ taskRun[t].stderr.truncated

\* C19: execute_command with timeout T against a command that runs longer
\* than T does not block past the timeout: the call comes back (with the
\* synthetic exit code 255, empty stdout and an explanatory stderr) and the
\* session takes further calls, so no caller is ever left waiting inside it
C19_ExecuteNeverBlocks ==
    \A t \in Sessions : hpc[t] # "blocked"

\* C20: a connect() that failed, for whatever reason, leaves the session
\* closed: the client handle is released, and no later call on the session is
\* handed to the failed client
C20_FailedConnectCloses ==
    \A t \in Sessions :
        hloc[t].connect_error # ""
            => ssh[t].client = "None" /\ ~hloc[t].handed

\* the events published on an observer's channel since it subscribed
PublishedSince(o) ==
    LET t == observers[o].topic
    IN [i \in 1..(Len(stream[t]) - observers[o].since) |->
          Event(t, observers[o].since + i, stream[t][observers[o].since + i])]

IsPrefix(a, b) == Len(a) <= Len(b) /\ SubSeq(b, 1, Len(a)) = a

\* C21: what a connected observer has received is exactly the events
\* published on its task's channel after it subscribed, in publish order:
\* nothing published earlier, nothing of another task, nothing else, and
\* once nothing is in flight to it, every one of them
C21_ExactlyTheEventsSinceSubscribe ==
    \A o \in Observers :
        observers[o].state \in {"open", "stalled"}
            => /\ IsPrefix(observers[o].frames, PublishedSince(o))
               /\ observers[o].buffer = <<>> => observers[o].frames = PublishedSince(o)

\* C22: once the bridge has relayed a done or error event of the task, the
\* stream has ended for that observer: the connection is closed by the bridge
\* and the terminal event is the last frame it sent
C22_StreamEndsAfterTerminalEvent ==
    \A o \in Observers :
        \A i \in 1..Len(observers[o].frames) :
            (observers[o].frames[i].task # 0 /\ observers[o].frames[i].kind \in {"done", "error"})
                => observers[o].state = "closed" /\ i = Len(observers[o].frames)

\* C23: a revoke request that finds a task whose status is pending or running
\* sets the status to FAILED with an explanatory error message and leaves the
\* runner where it is; one that finds a task in SUCCESS or FAILED is rejected
\* and leaves the record unchanged
C23_RevokeFlipsToFailed ==
    [][\A t \in ApiTasks :
         (revoked'[t] # revoked[t] /\ taskRun[t].celery_task_id)
            => IF taskRun[t].status \in {"pending", "running"}
                 THEN /\ taskRun'[t].status = "failed"
                      /\ taskRun'[t].error_message # ""
                      /\ pc'[t] = pc[t]
                 ELSE /\ taskRun'[t] = taskRun[t]
                      /\ revoked'[t] >= 400]_vars

\* C24: the task id returned to the caller is stored on the TaskRun record
\* before the runner does any SSH work for the task: no invocation is
\* connected to its host while its record has no task id to be looked up by
C24_TaskIdStoredBeforeSshWork ==
    \A t \in ApiTasks :
        pc[t] \in {"pin", "deploy", "archive", "execute", "output"}
            => taskRun[t].celery_task_id

\* C25: after any sequence of successful create and update requests a job
\* with run_on_all_platforms = true has no target platform ids and a job with
\* run_on_all_platforms = false has at least one, also after an update that
\* sets both fields in one request
C25_RunOnAllExcludesTargets ==
    \A j \in Jobs :
        jobs[j].exists
            => (jobs[j].run_on_all_platforms <=> jobs[j].platform_links = {})

\* C26: decrypt(encrypt(x)) = x for every byte string and every UTF-8 string
\* x, the empty one and multi-byte ones included, whichever of the tokens of
\* x is decrypted; and decrypting data that encrypt did not produce ends in
\* an error, never in a value.
C26_RoundTrip ==
    box.op # "none" =>
        /\ ( /\ box.arg \in Produced(box)
             /\ box.op = (IF box.kind = "bytes" THEN "decrypt_bytes" ELSE "decrypt_string") )
              => box.result = "ok" /\ box.out = box.plain
        /\ box.arg \notin Produced(box) => box.result # "ok"

\* a string with a four-byte and a two-byte character, encrypted twice into
\* different tokens, read back from the second one
C26_Witness ==
    /\ box.kind = "str" /\ box.plain = <<128512, 233>>
    /\ Len(box.tokens) = 2 /\ box.tokens[1] # box.tokens[2]
    /\ box.op = "decrypt_string" /\ box.arg = box.tokens[2]
    /\ box.result = "ok" /\ box.out = box.plain

\* C27: whenever the inline stdout or stderr stored on a run-command task's
\* row is truncated, the full combined output has been archived and the row's
\* result_location is set: no captured output is lost, whatever the two
\* lengths are
C27_TruncatedImpliesArchived ==
    \A t \in Tasks :
        (loc[t].type = "run_command"
           /\ (taskRun[t].stdout.truncated \/ taskRun[t].stderr.truncated))
            => taskRun[t].result_location /\ t \in blobs

TerminalEvents == {"done", "error"}
HasTerminalEvent(events) == \E i \in 1..Len(events) : events[i] \in TerminalEvents

\* C28: whenever a done or error event is published for a task, the task's
\* persisted status is already SUCCESS or FAILED; no further event is
\* published on the task's topic afterwards, and the status an observer reads
\* after the terminal event is the final one
C28_TerminalEventIsLast ==
    [][\A t \in Tasks :
         HasTerminalEvent(stream'[t]) =>
            /\ taskRun'[t].status \in Terminal
            /\ \A i \in 1..(Len(stream'[t]) - 1) : stream'[t][i] \notin TerminalEvents
            /\ HasTerminalEvent(stream[t]) =>
                  /\ stream'[t] = stream[t]
                  /\ taskRun'[t].status = taskRun[t].status]_vars

\* a deploy task has returned after publishing done, a run-command task has
\* raised after publishing error, and each row holds its terminal status
C28_Witness ==
    \E t, u \in Tasks :
        /\ pc[t] = "returned" /\ stream[t] # <<>> /\ stream[t][Len(stream[t])] = "done"
        /\ taskRun[t].status = "success"
        /\ pc[u] = "raised" /\ stream[u] # <<>> /\ stream[u][Len(stream[u])] = "error"
        /\ taskRun[u].status = "failed"

\* C29: once a runner invocation that connected has ended, by returning or by
\* raising (a failure of fingerprint persistence, key deployment, command
\* execution or archival included), the SSH session it opened is closed: no
\* session stays open after its task is terminal
C29_SessionClosedAtEnd ==
    \A t \in Tasks :
        (pc[t] \in {"returned", "raised"} /\ taskRun[t].status \in Terminal)
            => ssh[t].client # "live"

\* C30: when a pinned fingerprint was supplied to connect, the host key is
\* verified before the credential is presented: no password or private-key
\* authentication attempt is made to a host whose key fingerprint differs
\* from the pin
C30_VerifyBeforeAuthenticate ==
    \A t \in Sessions :
        (ssh[t].known # NoFp /\ hloc[t].presented # NoFp)
            => hloc[t].presented = ssh[t].known

====
